---- MODULE Spec2Model ----
(***************************************************************************)
(* Model of the semver GitHub action (src/src/index.ts).                   *)
(*                                                                         *)
(* One invocation of run() reads five string inputs, computes a first      *)
(* candidate version on the main-line or the pre-release path, probes the  *)
(* git tag store candidate by candidate (bumpForUniqueness / tagExists),   *)
(* and emits the accepted candidate as the "version" output and the        *)
(* NEW_VERSION variable.  Any exception inside run() is caught and turned  *)
(* into core.setFailed.                                                    *)
(*                                                                         *)
(* Strings are sequences of one-character strings, so that trimming,       *)
(* upper-casing, regular-expression matching, numeric conversion and       *)
(* formatting are computed character by character as JavaScript does.      *)
(***************************************************************************)
EXTENDS Integers, Sequences, FiniteSets

VARIABLES
    env,            \* raw input values of the runner: input name -> string
    tags,           \* the tag store: names t for which refs/tags/t exists
    pc,             \* position of run()
    baseBranch,     \* run(): const baseBranch
    upgradeType,    \* run(): const upgradeType (normalized)
    base,           \* run(): parsed / mainBase
    version,        \* bumpForUniqueness: parameter `version` (first candidate)
    v,              \* bumpForUniqueness: loop variable `v`
    queries,        \* tag-store queries issued so far, in order, with outcome
    output,         \* value given to core.setOutput("version", ..), or None
    exported,       \* value given to core.exportVariable("NEW_VERSION", ..)
    failures,       \* messages given to core.setFailed, in order
    prev            \* <<summary>> of the previous invocation of run(), or <<>>

vars == <<env, tags, pc, baseBranch, upgradeType, base, version, v,
          queries, output, exported, failures, prev>>

None == <<"none">>

-----------------------------------------------------------------------------
(* Bounds of the model.                                                    *)

\* length of each chain of consecutive tag names the store may hold
MaxChain == 2

-----------------------------------------------------------------------------
(* Characters and JavaScript string primitives.                            *)

DigitChars == <<"0", "1", "2", "3", "4", "5", "6", "7", "8", "9">>
LowerChars == <<"a", "b", "c", "d", "e", "f", "g", "h", "i", "j", "k", "l", "m",
                "n", "o", "p", "q", "r", "s", "t", "u", "v", "w", "x", "y", "z">>
UpperChars == <<"A", "B", "C", "D", "E", "F", "G", "H", "I", "J", "K", "L", "M",
                "N", "O", "P", "Q", "R", "S", "T", "U", "V", "W", "X", "Y", "Z">>

Range(f) == {f[i] : i \in DOMAIN f}

IsDigit(c) == c \in Range(DigitChars)

\* value of a decimal digit character
DigitVal(c) == (CHOOSE i \in DOMAIN DigitChars : DigitChars[i] = c) - 1

\* \d+ anchored at both ends
IsDigits(s) == Len(s) > 0 /\ \A i \in DOMAIN s : IsDigit(s[i])

\* unary plus on a string of decimal digits: its numeric value
RECURSIVE ToNumber(_)
ToNumber(s) ==
    IF s = <<>> THEN 0
    ELSE 10 * ToNumber(SubSeq(s, 1, Len(s) - 1)) + DigitVal(s[Len(s)])

\* template-literal rendering of a non-negative integer: shortest decimal
RECURSIVE NumToString(_)
NumToString(n) ==
    IF n < 10 THEN <<DigitChars[n + 1]>>
    ELSE NumToString(n \div 10) \o <<DigitChars[(n % 10) + 1]>>

IsSpace(c) == c = " "

\* String.prototype.trim
RECURSIVE Trim(_)
Trim(s) ==
    IF s = <<>> THEN s
    ELSE IF IsSpace(s[1]) THEN Trim(Tail(s))
    ELSE IF IsSpace(s[Len(s)]) THEN Trim(SubSeq(s, 1, Len(s) - 1))
    ELSE s

\* String.prototype.toUpperCase
UpperChar(c) ==
    IF c \in Range(LowerChars)
    THEN UpperChars[CHOOSE i \in DOMAIN LowerChars : LowerChars[i] = c]
    ELSE c

ToUpperCase(s) == [i \in DOMAIN s |-> UpperChar(s[i])]

\* does `s` carry `p` at position i
HasAt(s, p, i) == i + Len(p) - 1 <= Len(s) /\ SubSeq(s, i, i + Len(p) - 1) = p

StartsWith(s, p) == HasAt(s, p, 1)

-----------------------------------------------------------------------------
(* String literals of the program.                                         *)

Empty == <<>>
Dot == <<".">>
MAIN == <<"m", "a", "i", "n">>
MAJOR == <<"M", "A", "J", "O", "R">>
MINOR == <<"M", "I", "N", "O", "R">>
PATCH == <<"P", "A", "T", "C", "H">>
DEVELOP == <<"-", "d", "e", "v", "e", "l", "o", "p", ".">>

-----------------------------------------------------------------------------
(* Pure functions of index.ts.                                             *)

Null == <<"null">>

\* type Semver = { major: number; minor: number; patch: number }
Semver(major, minor, patch) == <<major, minor, patch>>
major(s) == s[1]
minor(s) == s[2]
patch(s) == s[3]

\* SEMVER_RE = /^(\d+)\.(\d+)\.(\d+)$/ : the three captured groups, or Null
SEMVER_RE(s) ==
    LET dots == {i \in DOMAIN s : s[i] = "."} IN
    IF Cardinality(dots) # 2 THEN Null
    ELSE LET d1 == CHOOSE i \in dots : \A j \in dots : i <= j
             d2 == CHOOSE i \in dots : \A j \in dots : j <= i
             g1 == SubSeq(s, 1, d1 - 1)
             g2 == SubSeq(s, d1 + 1, d2 - 1)
             g3 == SubSeq(s, d2 + 1, Len(s))
         IN  IF IsDigits(g1) /\ IsDigits(g2) /\ IsDigits(g3)
             THEN <<g1, g2, g3>>
             ELSE Null

parseSemver(tag) ==
    IF tag = Empty THEN Null
    ELSE LET m == SEMVER_RE(Trim(tag)) IN
         IF m = Null THEN Null
         ELSE Semver(ToNumber(m[1]), ToNumber(m[2]), ToNumber(m[3]))

normalizeUpgradeType(x) ==
    LET up == ToUpperCase(Trim(IF x = Empty THEN PATCH ELSE x)) IN
    IF up = MAJOR \/ up = MINOR THEN up ELSE PATCH

formatSemver(s) ==
    NumToString(major(s)) \o Dot \o NumToString(minor(s)) \o Dot
        \o NumToString(patch(s))

\* parseSemver(..) ?? { major: 0, minor: 1, patch: 0 }
DefaultBase == Semver(0, 1, 0)

orDefault(p) == IF p = Null THEN DefaultBase ELSE p

\* the switch with a MINOR case that forgets `next.patch = 0`
nextKeepsPatch(p, up) ==
    IF up = MAJOR THEN Semver(major(p) + 1, 0, 0)
    ELSE IF up = MINOR THEN Semver(major(p), minor(p) + 1, patch(p))
    ELSE Semver(major(p), minor(p), patch(p) + 1)

\* the switch with a default case that forgets to increment the patch
nextStalePatch(p, up) ==
    IF up = MAJOR THEN Semver(major(p) + 1, 0, 0)
    ELSE IF up = MINOR THEN Semver(major(p), minor(p) + 1, 0)
    ELSE p

\* run(): let next = { ...parsed }; switch (upgradeType) { ... }
next(p, up) ==
    IF up = MAJOR THEN Semver(major(p) + 1, 0, 0)
    ELSE IF up = MINOR THEN Semver(major(p), minor(p) + 1, 0)
    ELSE Semver(major(p), minor(p), patch(p) + 1)

\* the advance function with `m[3] + 1` for `+m[3] + 1`: string concatenation
bumpPatchConcat(s) ==
    LET m == SEMVER_RE(s) IN
    IF m = Null THEN Null
    ELSE m[1] \o Dot \o m[2] \o Dot \o m[3] \o <<"1">>

\* run(): the advance function of the main-line path; Null stands for the
\* TypeError of dereferencing a failed match
bumpPatch(s) ==
    LET m == SEMVER_RE(s) IN
    IF m = Null THEN Null
    ELSE m[1] \o Dot \o m[2] \o Dot \o NumToString(ToNumber(m[3]) + 1)

\* run(): devPattern = ^{major}\.{minor}\.{patch}-develop\.(\d+)$ applied to
\* the trimmed lastDevelopTag: the captured group, or Null
devPattern(b, s) ==
    LET prefix == formatSemver(b) \o DEVELOP
        t == Trim(s)
        rest == SubSeq(t, Len(prefix) + 1, Len(t))
    IN  IF StartsWith(t, prefix) /\ IsDigits(rest) THEN rest ELSE Null

\* the build number taken from any "...-develop.N" tag, whatever its base
buildAnyBase(b, lastDevelopTag) ==
    LET t == Trim(lastDevelopTag)
        cut == {i \in 1..Len(t) :
                   /\ HasAt(t, DEVELOP, i)
                   /\ IsDigits(SubSeq(t, i + Len(DEVELOP), Len(t)))}
    IN  IF cut = {} THEN 1
        ELSE LET i == CHOOSE k \in cut : TRUE IN
             ToNumber(SubSeq(t, i + Len(DEVELOP), Len(t))) + 1

\* run(): let build = 0; if (m) build = +m[1]; build += 1
build(b, lastDevelopTag) ==
    LET m == devPattern(b, lastDevelopTag) IN
    (IF m # Null THEN ToNumber(m) ELSE 0) + 1

\* run(): mk = (b) => `${baseVersion}-develop.${b}`
mk(baseVersion, b) == baseVersion \o DEVELOP \o NumToString(b)

\* /^(.+?-develop\.)(\d+)$/ : the lazy group ends at the first "-develop."
\* (after at least one character) that is followed by digits up to the end
DevSplit(s) ==
    {i \in 2..Len(s) :
        /\ HasAt(s, DEVELOP, i)
        /\ IsDigits(SubSeq(s, i + Len(DEVELOP), Len(s)))}

\* run(): the advance function of the pre-release path
bumpBuild(s) ==
    IF DevSplit(s) = {} THEN Null
    ELSE LET i == CHOOSE k \in DevSplit(s) : \A j \in DevSplit(s) : k <= j
             x1 == SubSeq(s, 1, i + Len(DEVELOP) - 1)
             x2 == SubSeq(s, i + Len(DEVELOP), Len(s))
         IN  x1 \o NumToString(ToNumber(x2) + 1)

-----------------------------------------------------------------------------
(* The collaborators: inputs of the runner and the git tag store.          *)

\* core.getInput(name): the raw value, trimmed; "" when the input is absent
getInput(name) == Trim(env[name])

\* exec("git", ["rev-parse", `refs/tags/${tag}`]): the outcomes one query
\* can have: exit code 0 when the ref exists, a non-zero exit when it does
\* not, and at any time an error (the store cannot be queried)
exec(tag) == {IF tag \in tags THEN "exit0" ELSE "nonzero", "error"}

\* tagExists with the exit-code test inverted
tagExistsInverted(r) == IF r = "error" THEN FALSE ELSE r # "exit0"

\* tagExists whose catch answers true (fail closed)
tagExistsFailClosed(r) == IF r = "error" THEN TRUE ELSE r = "exit0"

\* tagExists, given the outcome of its exec: a thrown exec is caught and
\* yields false; otherwise exitCode === 0
tagExists(r) == IF r = "error" THEN FALSE ELSE r = "exit0"

-----------------------------------------------------------------------------
(* Input values and tag stores the model draws from.                       *)

S(n) == NumToString(n)
V(a, b, c) == S(a) \o Dot \o S(b) \o Dot \o S(c)
Sp == <<" ">>

BranchValues == {Empty, Sp \o MAIN \o Sp, <<"d", "e", "v">>, <<"M", "a", "i", "n">>}

UpgradeValues == {Empty, <<"m", "a", "j", "o", "r">>, <<"M", "i", "n", "o", "r">>,
                  <<"m", "a", "j">>}

LastTagValues == {Empty, V(1, 2, 3), <<"0">> \o V(1, 2, 3), V(1, 2, 9),
                  <<"v">> \o V(1, 2, 3)}

LastMainTagValues == {Empty, V(1, 2, 0), <<"0">> \o V(1, 2, 0)}

LastDevelopTagValues ==
    {Empty, mk(V(1, 2, 0), 5), mk(V(1, 1, 0), 9), mk(V(0, 1, 0), 9),
     V(1, 2, 0) \o DEVELOP \o <<"0", "5">>, V(1, 2, 0) \o DEVELOP}

\* the tag names a store may hold: the chain that follows 1.2.3 on the
\* main line and the chain that follows 1.2.0-develop.5
TagNames ==
    {V(1, 2, 3 + k) : k \in 1..MaxChain} \cup
    {V(1, 2, 0) \o DEVELOP \o S(5 + k) : k \in 1..MaxChain}

InputNames == {"baseBranch", "upgradeType", "lastTag", "lastMainTag", "lastDevelopTag"}

-----------------------------------------------------------------------------
(* The state machine of run().                                             *)

Fresh ==
    /\ pc = "start"
    /\ baseBranch = None /\ upgradeType = None /\ base = None
    /\ version = None /\ v = None
    /\ queries = <<>>
    /\ output = None /\ exported = None
    /\ failures = <<>>

Stores == tags \in SUBSET TagNames

Init ==
    /\ env \in [InputNames -> BranchValues \cup UpgradeValues \cup LastTagValues
                              \cup LastMainTagValues \cup LastDevelopTagValues]
    /\ env.baseBranch \in BranchValues
    /\ env.upgradeType \in UpgradeValues
    /\ env.lastTag \in LastTagValues
    /\ env.lastMainTag \in LastMainTagValues
    /\ env.lastDevelopTag \in LastDevelopTagValues
    /\ Stores
    /\ Fresh
    /\ prev = <<>>

\* catch (err) { core.setFailed(err?.message ?? String(err)) }
Catch(message) ==
    /\ failures' = Append(failures, message)
    /\ pc' = "done"

\* lines 45-54: read the inputs and dispatch on baseBranch
Start ==
    /\ pc = "start"
    /\ IF getInput("baseBranch") = Empty
       THEN /\ Catch("Input required and not supplied: baseBranch")
            /\ UNCHANGED <<baseBranch, upgradeType>>
       ELSE /\ baseBranch' = Trim(getInput("baseBranch"))
            /\ upgradeType' = normalizeUpgradeType(getInput("upgradeType"))
            /\ pc' = IF baseBranch' = MAIN THEN "main" ELSE "develop"
            /\ UNCHANGED failures
    /\ UNCHANGED <<env, tags, base, version, v, queries, output,
                   exported, prev>>

\* the main-line base falling back to lastMainTag when lastTag does not parse
parsedFallback ==
    IF parseSemver(getInput("lastTag")) = Null
    THEN orDefault(parseSemver(getInput("lastMainTag")))
    ELSE parseSemver(getInput("lastTag"))

\* line 56: parseSemver(lastTag) ?? { major: 0, minor: 1, patch: 0 }
parsed == orDefault(parseSemver(getInput("lastTag")))

\* line 91: parseSemver(lastMainTag) ?? { major: 0, minor: 1, patch: 0 }
mainBase == orDefault(parseSemver(getInput("lastMainTag")))

\* lines 55-75: the main-line candidate, handed to bumpForUniqueness
MainLine ==
    /\ pc = "main"
    /\ base' = parsed
    /\ version' = formatSemver(next(base', upgradeType))
    /\ v' = version'
    /\ pc' = "probe"
    /\ UNCHANGED <<env, tags, baseBranch, upgradeType, queries,
                   output, exported, failures, prev>>

\* lines 88-115: the pre-release candidate, handed to bumpForUniqueness
PreRelease ==
    /\ pc = "develop"
    /\ base' = mainBase
    /\ version' = mk(formatSemver(base'), build(base', getInput("lastDevelopTag")))
    /\ v' = version'
    /\ pc' = "probe"
    /\ UNCHANGED <<env, tags, baseBranch, upgradeType, queries,
                   output, exported, failures, prev>>

\* the advance function run() passed to bumpForUniqueness
advance(s) == IF baseBranch = MAIN THEN bumpPatch(s) ELSE bumpBuild(s)

\* bumpForUniqueness: one iteration of while (await tagExists(v)) v = bumpPatch(v)
bumpForUniqueness ==
    /\ pc = "probe"
    /\ \E r \in exec(v) :
        /\ queries' = Append(queries, <<v, r>>)
        /\ IF tagExists(r)
           THEN IF advance(v) = Null
                THEN /\ Catch("Cannot read properties of null")
                     /\ UNCHANGED v
                ELSE /\ v' = advance(v)
                     /\ UNCHANGED <<pc, failures>>
           ELSE /\ pc' = "setOutput"
                /\ UNCHANGED <<v, failures>>
    /\ UNCHANGED <<env, tags, baseBranch, upgradeType, base, version,
                   output, exported, prev>>

\* core.setOutput("version", newVersion)
SetOutput ==
    /\ pc = "setOutput"
    /\ output' = v
    /\ pc' = "exportVariable"
    /\ UNCHANGED <<env, tags, baseBranch, upgradeType, base, version,
                   v, queries, exported, failures, prev>>

\* core.setOutput throws (the runner's output file cannot be written)
SetOutputThrows ==
    /\ pc = "setOutput"
    /\ Catch("setOutput")
    /\ UNCHANGED <<env, tags, baseBranch, upgradeType, base, version,
                   v, queries, output, exported, prev>>

\* core.exportVariable("NEW_VERSION", newVersion)
ExportVariable ==
    /\ pc = "exportVariable"
    /\ exported' = v
    /\ pc' = "info"
    /\ UNCHANGED <<env, tags, baseBranch, upgradeType, base, version,
                   v, queries, output, failures, prev>>

\* core.exportVariable throws (the runner's environment file cannot be written)
ExportVariableThrows ==
    /\ pc = "exportVariable"
    /\ Catch("exportVariable")
    /\ UNCHANGED <<env, tags, baseBranch, upgradeType, base, version,
                   v, queries, output, exported, prev>>

\* core.info(`NEW_VERSION=${newVersion}`) and the return of run()
Return ==
    /\ pc = "info"
    /\ pc' = "done"
    /\ UNCHANGED <<env, tags, baseBranch, upgradeType, base, version,
                   v, queries, output, exported, failures, prev>>

Next ==
    \/ Start
    \/ MainLine
    \/ PreRelease
    \/ bumpForUniqueness
    \/ SetOutput
    \/ SetOutputThrows
    \/ ExportVariable
    \/ ExportVariableThrows
    \/ Return

Spec == Init /\ [][Next]_vars

-----------------------------------------------------------------------------
(* Two invocations of run() against the same tag store.                    *)

RerunBranchValues == {MAIN, <<"d", "e", "v">>}
RerunLastTagValues == {Empty, V(1, 2, 3)}
RerunLastMainTagValues == {Empty, V(1, 2, 0)}
RerunLastDevelopTagValues == {Empty, mk(V(1, 2, 0), 5)}

\* position of the query that failed in this invocation, 0 when none did
ErrorAt ==
    IF queries # <<>> /\ queries[Len(queries)][2] = "error" THEN Len(queries) ELSE 0

InitRerun ==
    /\ env \in [InputNames -> RerunBranchValues \cup RerunLastTagValues
                              \cup RerunLastMainTagValues
                              \cup RerunLastDevelopTagValues]
    /\ env.baseBranch \in RerunBranchValues
    /\ env.upgradeType = Empty
    /\ env.lastTag \in RerunLastTagValues
    /\ env.lastMainTag \in RerunLastMainTagValues
    /\ env.lastDevelopTag \in RerunLastDevelopTagValues
    /\ Stores
    /\ Fresh
    /\ prev = <<>>

\* line 128: the action is invoked again, with other tag inputs, while the
\* tag store is as it was
Rerun ==
    /\ pc = "done"
    /\ prev = <<>>
    /\ prev' = <<[env |-> [n \in InputNames |-> getInput(n)],
                  output |-> output, errorAt |-> ErrorAt]>>
    /\ \E t \in RerunLastTagValues, m \in RerunLastMainTagValues,
          d \in RerunLastDevelopTagValues :
            env' = [env EXCEPT !.lastTag = t, !.lastMainTag = m,
                               !.lastDevelopTag = d]
    /\ pc' = "start"
    /\ baseBranch' = None /\ upgradeType' = None /\ base' = None
    /\ version' = None /\ v' = None
    /\ queries' = <<>>
    /\ output' = None /\ exported' = None
    /\ failures' = <<>>
    /\ UNCHANGED tags

NextRerun == Next \/ Rerun

SpecRerun == InitRerun /\ [][NextRerun]_vars

-----------------------------------------------------------------------------
(* Vocabulary of the properties.                                           *)

\* a and b are the same string up to the case of their letters
EqualsIgnoreCase(a, b) ==
    Len(a) = Len(b) /\ \A i \in DOMAIN a : UpperChar(a[i]) = UpperChar(b[i])

\* a > b in the lexicographic order on (major, minor, patch)
LexGreater(a, b) ==
    \/ major(a) > major(b)
    \/ major(a) = major(b) /\ minor(a) > minor(b)
    \/ major(a) = major(b) /\ minor(a) = minor(b) /\ patch(a) > patch(b)

OnMainLine == baseBranch = MAIN
OnPreRelease == baseBranch # None /\ baseBranch # MAIN

\* the first candidate has been computed
Computed == version # None

LastQuery == queries[Len(queries)]

\* the probe loop has ended: the last query did not answer "exists"
Accepted == queries # <<>> /\ LastQuery[2] # "exit0"

\* the last query failed
QueryFailed == queries # <<>> /\ LastQuery[2] = "error"

\* the trailing build number of a pre-release candidate of the current base
BuildOf(c) ==
    ToNumber(SubSeq(c, Len(formatSemver(base) \o DEVELOP) + 1, Len(c)))

\* the candidate c advanced k times, as the specification describes it
AdvancedBy(c, k) ==
    IF OnMainLine
    THEN LET p == parseSemver(c) IN V(major(p), minor(p), patch(p) + k)
    ELSE V(major(base), minor(base), patch(base)) \o DEVELOP \o S(BuildOf(c) + k)

\* number of advances to the first candidate that is not in the tag store
RECURSIVE FirstFree(_, _)
FirstFree(c, k) ==
    IF AdvancedBy(c, k) \notin tags \/ k > Cardinality(tags) THEN k
    ELSE FirstFree(c, k + 1)

-----------------------------------------------------------------------------
(* The properties.                                                         *)

\* C1: on the main-line path the first candidate is obtained from the base
\* B = parseSemver(lastTag), or {0,1,0} when lastTag does not parse, by
\* exactly one rule: {B.major+1,0,0} when upgradeType equals MAJOR up to case,
\* {B.major,B.minor+1,0} when it equals MINOR up to case, and
\* {B.major,B.minor,B.patch+1} for every other value.
C1_FirstCandidateMain ==
    (OnMainLine /\ Computed) =>
        LET B == orDefault(parseSemver(getInput("lastTag")))
            u == getInput("upgradeType")
        IN  version =
                IF EqualsIgnoreCase(u, MAJOR) THEN V(major(B) + 1, 0, 0)
                ELSE IF EqualsIgnoreCase(u, MINOR) THEN V(major(B), minor(B) + 1, 0)
                ELSE V(major(B), minor(B), patch(B) + 1)

\* C1 witness: an unrecognized upgradeType and a lastTag that does not parse
\* gave the patch rule on the default base.
C1_Witness ==
    /\ OnMainLine /\ pc = "probe"
    /\ getInput("upgradeType") = <<"m", "a", "j">>
    /\ parseSemver(getInput("lastTag")) = Null
    /\ version = V(0, 1, 1)

\* C2: on the pre-release path the first candidate is "{B}-develop.{n}" with
\* B = parseSemver(lastMainTag), or {0,1,0}, not incremented, and n = N+1
\* when lastDevelopTag is "{B.major}.{B.minor}.{B.patch}-develop." followed by
\* a group of decimal digits of value N, and n = 1 in every other case.
C2_FirstCandidatePreRelease ==
    (OnPreRelease /\ Computed) =>
        LET B == orDefault(parseSemver(getInput("lastMainTag")))
            anchor == V(major(B), minor(B), patch(B)) \o DEVELOP
            d == getInput("lastDevelopTag")
            N == SubSeq(d, Len(anchor) + 1, Len(d))
            n == IF StartsWith(d, anchor) /\ IsDigits(N) THEN ToNumber(N) + 1 ELSE 1
        IN  version = anchor \o S(n)

\* C2 witness: a develop tag anchored to another base restarted the build at 1.
C2_Witness ==
    /\ OnPreRelease /\ pc = "probe"
    /\ getInput("lastMainTag") = V(1, 2, 0)
    /\ getInput("lastDevelopTag") = V(1, 1, 0) \o DEVELOP \o S(9)
    /\ version = V(1, 2, 0) \o DEVELOP \o S(1)

\* C3 as stated: whatever the outcome of each tag-store query, the emitted
\* version is not the name of a tag that exists in the tag store.
C3_EmittedNotInStore ==
    /\ output # None => output \notin tags
    /\ exported # None => exported \notin tags

\* C3 amended: the emitted version is not the name of an existing tag, unless
\* the tag-store query for that very candidate failed.
C3_EmittedNotInStoreUnlessQueryFailed ==
    /\ output # None => (output \notin tags \/ LastQuery = <<output, "error">>)
    /\ exported # None => (exported \notin tags \/ LastQuery = <<exported, "error">>)

\* C3 witness: two existing tags were skipped and a free name was emitted.
C3_Witness ==
    /\ output # None /\ output \notin tags
    /\ Len(queries) = 3
    /\ queries[1][1] \in tags /\ queries[2][1] \in tags

\* C4 as stated: the probe loop returns the first element of the sequence
\* candidate, advance(candidate), ... that does not exist in the tag store:
\* with k consecutive existing tags it keeps major and minor (or the base and
\* the "-develop." prefix) and adds k to the patch (or the build).
C4_FirstNotInStore ==
    Accepted => v = AdvancedBy(version, FirstFree(version, 0))

\* C4 amended: the probe loop returns the first element of that sequence that
\* does not exist in the tag store or whose query fails: the k candidates
\* before it exist, and it has the patch (or the build) of the candidate plus k.
C4_FirstNotInStoreOrFailed ==
    Accepted =>
        \E k \in 0..Cardinality(tags) :
            /\ Len(queries) = k + 1
            /\ v = AdvancedBy(version, k)
            /\ \A j \in 0..(k - 1) : AdvancedBy(version, j) \in tags
            /\ v \notin tags \/ QueryFailed

\* C4 witness: 1.2.4 and 1.2.5 exist, the main line proposed 1.2.4 and the
\* loop returned 1.2.6.
C4_Witness ==
    /\ Accepted /\ OnMainLine
    /\ version = V(1, 2, 4)
    /\ {V(1, 2, 4), V(1, 2, 5)} \subseteq tags
    /\ v = V(1, 2, 6)

\* C5 as stated: whenever a tagExists query fails for a candidate, the probe
\* loop stops and accepts that candidate, and the run emits it as the version
\* without raising the failure signal.
C5_QueryFailureEmitsWithoutFailure ==
    QueryFailed =>
        /\ pc \in {"setOutput", "exportVariable", "info", "done"}
        /\ v = LastQuery[1]
        /\ failures = <<>>
        /\ pc = "done" => (output = v /\ exported = v)

\* C5 amended: whenever a tagExists query fails for a candidate, the probe
\* loop stops and accepts that candidate and the run goes on to emit it; the
\* failure signal is raised in that run only when an output step (setOutput,
\* exportVariable) itself throws, never because of the query.
C5_QueryFailureNotPropagated ==
    QueryFailed =>
        /\ pc \in {"setOutput", "exportVariable", "info", "done"}
        /\ v = LastQuery[1]
        /\ output \in {None, v} /\ exported \in {None, v}
        /\ pc \in {"exportVariable", "info"} => output = v
        /\ pc = "info" => exported = v
        /\ \A i \in DOMAIN failures : failures[i] \in {"setOutput", "exportVariable"}
        /\ (pc = "done" /\ failures = <<>>) => (output = v /\ exported = v)

\* C5 witness: the query for an existing tag failed and the run ended with
\* that tag emitted and no failure signal.
C5_Witness ==
    /\ QueryFailed /\ pc = "done"
    /\ LastQuery[1] \in tags
    /\ output = LastQuery[1] /\ exported = LastQuery[1]
    /\ failures = <<>>

\* C6: a run with a missing baseBranch, or in which a step throws, ends with
\* exactly one failure signal and with no version output and no NEW_VERSION
\* variable emitted; a failure signal and an emitted version never occur in
\* the same run.
C6_FailureMeansNoOutput ==
    failures # <<>> =>
        /\ Len(failures) = 1
        /\ output = None
        /\ exported = None

\* C7: the emitted version depends only on the inputs of the selected path:
\* two runs against the same tag store (answering alike) with the same
\* baseBranch = "main", lastTag and upgradeType emit the same version whatever
\* lastMainTag and lastDevelopTag are; two runs with the same non-main
\* baseBranch, lastMainTag and lastDevelopTag emit the same version whatever
\* lastTag is.
C7_SelectedInputsOnly ==
    (/\ prev # <<>>
     /\ output # None /\ prev[1].output # None
     /\ prev[1].errorAt = ErrorAt
     /\ prev[1].env.baseBranch = getInput("baseBranch")) =>
        /\ (/\ OnMainLine
            /\ prev[1].env.lastTag = getInput("lastTag")
            /\ prev[1].env.upgradeType = getInput("upgradeType"))
                => output = prev[1].output
        /\ (/\ OnPreRelease
            /\ prev[1].env.lastMainTag = getInput("lastMainTag")
            /\ prev[1].env.lastDevelopTag = getInput("lastDevelopTag"))
                => output = prev[1].output

\* C7 witness: two main-line runs with the same lastTag and different
\* lastMainTag and lastDevelopTag have both emitted a version.
C7_Witness ==
    /\ prev # <<>> /\ output # None /\ prev[1].output # None
    /\ prev[1].errorAt = ErrorAt
    /\ OnMainLine
    /\ prev[1].env.lastTag = getInput("lastTag")
    /\ prev[1].env.lastMainTag # getInput("lastMainTag")
    /\ prev[1].env.lastDevelopTag # getInput("lastDevelopTag")

\* C8: for every string s of three dot-separated groups of digits that
\* parseSemver accepts, formatSemver(parseSemver(s)) is the identical string s
\* (line 60 formats the parsed lastTag).
C8_RoundTrip ==
    (OnMainLine /\ Computed /\ parseSemver(getInput("lastTag")) # Null) =>
        formatSemver(base) = getInput("lastTag")

\* C9: the run ends in exactly one of two terminal outcomes: a version
\* emitted or a failure signal raised.
C9_ExactlyOneOutcome ==
    pc = "done" =>
        ((output # None \/ exported # None) # (failures # <<>>))

\* C10: on the main-line path the emitted version is strictly greater than
\* the base version (parseSemver(lastTag), or {0,1,0}) in the lexicographic
\* order on (major, minor, patch); uniqueness bumping never lowers the
\* candidate.
C10_EmittedAboveBase ==
    (OnMainLine /\ Computed) =>
        LET B == orDefault(parseSemver(getInput("lastTag"))) IN
        /\ LexGreater(parseSemver(v), B)
        /\ v = version \/ LexGreater(parseSemver(v), parseSemver(version))
        /\ output # None => (output = v /\ LexGreater(parseSemver(output), B))

\* C10 witness: a version two patches above the first candidate was emitted.
C10_Witness ==
    /\ OnMainLine /\ output # None
    /\ getInput("lastTag") = V(1, 2, 3)
    /\ output = V(1, 2, 6)

====
